---- MODULE Spec2Model ----
(***************************************************************************)
(* A model of raysect's PinholeCamera (optical/observer/pinholecamera.py): *)
(* the camera object's fields, the property setters, and observe() as a    *)
(* state machine over its channel / row / column loops.                    *)
(*                                                                         *)
(* Python floats are modelled as binary floating-point numbers with a      *)
(* MantissaBits-bit significand, round-to-nearest-even, held as integer    *)
(* multiples of 1/Scale.  Times are whole time units.                      *)
(***************************************************************************)
EXTENDS Integers, Sequences, FiniteSets, TLC

(***************************************************************************)
(* Bounds of the model.                                                    *)
(***************************************************************************)
\* significand width of the modelled floats (IEEE double has 53)
MantissaBits == 10
\* the clock is followed up to this reading
MaxTime == 3
\* the largest channel count a camera is constructed with
MaxChannels == 2

(***************************************************************************)
(* Floating point.                                                         *)
(***************************************************************************)
RECURSIVE Pow2(_)
Pow2(n) == IF n = 0 THEN 1 ELSE 2 * Pow2(n - 1)

\* number of float units in 1.0
Scale == Pow2(MantissaBits)

Abs(a) == IF a < 0 THEN -a ELSE a

Min(a, b) == IF a < b THEN a ELSE b

Max(a, b) == IF a < b THEN b ELSE a

\* spacing of the floats around the non-negative rational a/b (in units)
RECURSIVE UlpOf(_, _, _)
UlpOf(a, b, u) == IF a < b * Scale * u THEN u ELSE UlpOf(a, b, 2 * u)

\* the float nearest to the rational a/b (b > 0), ties to even
FRound(a, b) ==
    LET m == Abs(a)
        u == UlpOf(m, b, 1)
        d == b * u
        k == m \div d
        r == m - k * d
        up == (2 * r > d) \/ (2 * r = d /\ k % 2 = 1)
        v == (IF up THEN k + 1 ELSE k) * u
    IN  IF a < 0 THEN -v ELSE v

\* float(n) for a small integer n
FromInt(n) == n * Scale

\* a + b and a - b on floats
FAdd(a, b) == FRound(a + b, 1)

FSub(a, b) == FRound(a - b, 1)

\* float * int and float / int (the int converts exactly)
FMulInt(a, n) == FRound(a * n, 1)

FDivInt(a, n) == FRound(a, n)

\* largest r with r * r <= s, by bisection on lo * lo <= s < hi * hi
RECURSIVE SqrtFloor(_, _, _)
SqrtFloor(s, lo, hi) ==
    IF hi - lo <= 1 THEN lo
    ELSE LET mid == (lo + hi) \div 2
         IN  IF mid * mid <= s THEN SqrtFloor(s, mid, hi) ELSE SqrtFloor(s, lo, mid)

(***************************************************************************)
(* Collaborators of the camera.                                            *)
(***************************************************************************)
\* math.tan(pi / 180 * 0.5 * fov), from a table in thousandths
TanHalfFov(f) ==
    FRound((CASE f = 40 -> 364 [] f = 60 -> 577 [] f = 90 -> 1000) * Scale, 1000)

\* Vector(vx, vy, vz).normalise(): every component divided by the length
Normalise(v) ==
    LET s == v[1] * v[1] + v[2] * v[2] + v[3] * v[3]
        len == SqrtFloor(s, 0, 8 * Scale)
    IN  IF len = 0 THEN v
        ELSE <<FRound(v[1] * Scale, len), FRound(v[2] * Scale, len), FRound(v[3] * Scale, len)>>

\* resample_ciexyz(min_wavelength, max_wavelength, n): one X, Y, Z weight per sample
ResampleCiexyz(lo, hi, n) ==
    [i \in 0 .. n - 1 |-> <<1 + (i % 2), 1 + ((i + n) % 3), 2 - (i % 2)>>]

\* spectrum_to_ciexyz(spectrum, resampled_xyz): linear in the spectrum's samples
RECURSIVE WeightedSum(_, _, _, _)
WeightedSum(samples, table, k, n) ==
    IF n = 0 THEN 0
    ELSE samples[n - 1] * table[n - 1][k] + WeightedSum(samples, table, k, n - 1)

SpectrumToCiexyz(samples, table, n) ==
    <<WeightedSum(samples, table, 1, n), WeightedSum(samples, table, 2, n),
      WeightedSum(samples, table, 3, n)>>

\* ciexyz_to_srgb(x, y, z): a matrix, then clamped to the displayable range
Clamp(v) == Max(0, Min(12, v))

CiexyzToSrgb(c) ==
    <<Clamp(3 * c[1] - c[2] - c[3]), Clamp(2 * c[2] - c[1]), Clamp(c[3])>>

\* ray.trace(world) for the ray of channel c through pixel (py, px): the radiance
\* at global spectral sample i depends on the pixel and on i
Radiance(py, px, i) == 1 + ((px + 2 * py + i) % 3)

Trace(c, n, py, px) == [k \in 0 .. n - 1 |-> Radiance(py, px, n * c + k)]

\* ray.ray_count after the trace: the tracer's own count, secondary rays included
TracerRayCount(py, px) == 1 + ((px + py) % 2)

\* numpy.zeros((h, w, 3))
Zeros(h, w) == [py \in 0 .. h - 1 |-> [px \in 0 .. w - 1 |-> <<0, 0, 0>>]]

\* self.ray_max_depth
ray_max_depth == 15

\* the period of the statistics throttle, in time units
StatsPeriod == 1

(***************************************************************************)
(* State.                                                                  *)
(***************************************************************************)
VARIABLES
    \* fields of the camera
    pixels, fov, frame, rays, spectral_samples, min_wavelength, max_wavelength,
    display_progress, display_update_time, root_is_world,
    \* locals of observe
    xyz_frame, image_delta, image_start_x, image_start_y, ray_list,
    lower_index, index, y, x, ray_count, progress_timer, display_timer, dt,
    direction,
    \* where the caller and observe stand, and the exception that was raised
    pc, script, error,
    \* the world around the camera: the clock, the calls the tracer received,
    \* the display() calls and progress lines of the current observe, and the
    \* configuration and frames of the last observe that returned
    now, trace_log, display_calls, progress_lines, prev

camera == <<pixels, fov, frame, rays, spectral_samples, min_wavelength, max_wavelength,
            display_progress, display_update_time, root_is_world>>

locals == <<xyz_frame, image_delta, image_start_x, image_start_y, ray_list,
            lower_index, index, y, x, ray_count, progress_timer, display_timer, dt,
            direction>>

environment == <<now, trace_log, display_calls, progress_lines, prev>>

vars == <<camera, locals, pc, script, error, environment>>

\* what a render depends on
Config == <<pixels, fov, rays, spectral_samples, min_wavelength, max_wavelength>>

(***************************************************************************)
(* The caller.  script is the rest of the caller's program, a sequence of  *)
(* calls <<operation, argument>>; control is with the caller whenever no   *)
(* observe is in progress.                                                 *)
(***************************************************************************)
\* pc is "idle" after construction and after a setter, "done" after an observe
\* that returned, "failed" after an observe that raised
AtCaller == pc \in {"idle", "done", "failed"}

\* observe has passed its validation and has not raised
Rendering == pc \in {"stats", "trace", "closing", "done"}

Calls(op) == AtCaller /\ script # <<>> /\ Head(script)[1] = op

Arg == Head(script)[2]

OBSERVE == <<"observe", 0>>

\* the plain attributes of the camera that a caller assigns between renders
AttrNames ==
    {"rays", "spectral_samples", "min_wavelength", "max_wavelength",
     "display_progress", "display_update_time"}

(***************************************************************************)
(* PinholeCamera(pixels, fov, spectral_samples, rays, parent): the state   *)
(* after construction, with the caller's program still to run.             *)
(***************************************************************************)
Construct(p, f, s, r, parent_is_world, program) ==
    /\ pixels = p
    /\ fov = f
    /\ frame = Zeros(p[2], p[1])
    /\ rays = r
    /\ spectral_samples = s
    /\ min_wavelength = FromInt(375)
    /\ max_wavelength = FromInt(740)
    /\ display_progress = TRUE
    /\ display_update_time = 10
    /\ root_is_world = parent_is_world
    /\ xyz_frame = Zeros(0, 0)
    /\ image_delta = 0
    /\ image_start_x = 0
    /\ image_start_y = 0
    /\ ray_list = <<>>
    /\ lower_index = 0
    /\ index = 0
    /\ y = 0
    /\ x = 0
    /\ ray_count = 0
    /\ progress_timer = 0
    /\ display_timer = 0
    /\ dt = 0
    /\ direction = <<0, 0, 0>>
    /\ pc = "idle"
    /\ script = program
    /\ error = "none"
    /\ now = 0
    /\ trace_log = <<>>
    /\ display_calls = 0
    /\ progress_lines = 0
    /\ prev = [valid |-> FALSE,
               config |-> <<p, f, r, s, FromInt(375), FromInt(740)>>,
               xyz_frame |-> Zeros(0, 0), frame |-> Zeros(0, 0)]

(***************************************************************************)
(* The property setters and attribute assignments.                         *)
(***************************************************************************)
\* pixels.setter
SetPixels ==
    /\ Calls("pixels")
    /\ script' = Tail(script)
    /\ IF Len(Arg) # 2
       THEN error' = "ValueError" /\ pixels' = pixels
       ELSE error' = "none" /\ pixels' = Arg
    /\ UNCHANGED <<fov, frame, rays, spectral_samples, min_wavelength, max_wavelength,
                   display_progress, display_update_time, root_is_world>>
    /\ pc' = "idle"
    /\ UNCHANGED <<locals, environment>>

\* fov.setter
SetFov ==
    /\ Calls("fov")
    /\ script' = Tail(script)
    /\ IF Arg <= 0
       THEN error' = "ValueError" /\ fov' = fov
       ELSE error' = "none" /\ fov' = Arg
    /\ UNCHANGED <<pixels, frame, rays, spectral_samples, min_wavelength, max_wavelength,
                   display_progress, display_update_time, root_is_world>>
    /\ pc' = "idle"
    /\ UNCHANGED <<locals, environment>>

\* camera.<name> = value for the attributes that __init__ sets without a property
SetAttr ==
    /\ AtCaller
    /\ script # <<>>
    /\ Head(script)[1] \in AttrNames
    /\ script' = Tail(script)
    /\ error' = "none"
    /\ rays' = IF Head(script)[1] = "rays" THEN Arg ELSE rays
    /\ spectral_samples' = IF Head(script)[1] = "spectral_samples" THEN Arg ELSE spectral_samples
    /\ min_wavelength' = IF Head(script)[1] = "min_wavelength" THEN FromInt(Arg) ELSE min_wavelength
    /\ max_wavelength' = IF Head(script)[1] = "max_wavelength" THEN FromInt(Arg) ELSE max_wavelength
    /\ display_progress' = IF Head(script)[1] = "display_progress" THEN Arg = 1 ELSE display_progress
    /\ display_update_time' =
           IF Head(script)[1] = "display_update_time" THEN Arg ELSE display_update_time
    /\ UNCHANGED <<pixels, fov, frame, root_is_world>>
    /\ pc' = "idle"
    /\ UNCHANGED <<locals, environment>>

\* camera.parent = node: the camera's root is a World afterwards, or is not
SetParent ==
    /\ Calls("parent")
    /\ script' = Tail(script)
    /\ error' = "none"
    /\ root_is_world' = (Arg = 1)
    /\ UNCHANGED <<pixels, fov, frame, rays, spectral_samples, min_wavelength, max_wavelength,
                   display_progress, display_update_time>>
    /\ pc' = "idle"
    /\ UNCHANGED <<locals, environment>>

(***************************************************************************)
(* The pure parts of observe.                                              *)
(***************************************************************************)
\* what time() can return when the last reading was t
Readings(t) == t .. Min(t + 1, MaxTime)

\* xyz_frame = zeros(...) and self.frame = zeros(...) at the top of observe
\* as NewXyzFrame, but an accumulator of the right shape is kept from the last render
StaleXyzFrame(h, w) ==
    IF xyz_frame # Zeros(0, 0) /\ DOMAIN xyz_frame = 0 .. h - 1
       /\ (\A py \in 0 .. h - 1 : DOMAIN xyz_frame[py] = 0 .. w - 1)
    THEN xyz_frame
    ELSE Zeros(h, w)

NewXyzFrame(h, w) == Zeros(h, w)

NewFrame(h, w) == Zeros(h, w)

\* the image plane: pixel step and start point of the scan
ImagePlane(p, f) ==
    LET max_pixels == Max(p[1], p[2])
        image_max_width == FMulInt(TanHalfFov(f), 2)
        delta == FDivInt(image_max_width, max_pixels - 1)
    IN  IF max_pixels > 1
        THEN [image_delta |-> delta,
              image_start_x |-> FRound(p[1] * delta, 2),
              image_start_y |-> FRound(p[2] * delta, 2)]
        ELSE [image_delta |-> 0, image_start_x |-> 0, image_start_y |-> 0]

\* Vector(image_start_x - image_delta * x, image_start_y - image_delta * y, 1.0)
ImagePoint(sx, sy, delta, px, py) ==
    <<FSub(sx, FMulInt(delta, px)), FSub(sy, FMulInt(delta, py)), FromInt(1)>>

\* the direction of the ray through pixel (px, py), in camera space
RayDirection(sx, sy, delta, px, py) == Normalise(ImagePoint(sx, sy, delta, px, py))

\* the upper wavelength of channel i
UpperWavelength(lo, delta_wavelength, i) == FAdd(lo, FMulInt(delta_wavelength, i + 1))

\* the list of ray templates, one per channel
RECURSIVE RaysFrom(_, _, _, _, _, _)
RaysFrom(i, n, lower_wavelength, lo, delta_wavelength, s) ==
    IF i >= n THEN <<>>
    ELSE LET upper_wavelength == UpperWavelength(lo, delta_wavelength, i)
         IN  <<[min_wavelength |-> lower_wavelength, max_wavelength |-> upper_wavelength,
                num_samples |-> s, max_depth |-> ray_max_depth]>>
             \o RaysFrom(i + 1, n, upper_wavelength, lo, delta_wavelength, s)

GenerateRays(lo, hi, n, s) == RaysFrom(0, n, lo, lo, FDivInt(FSub(hi, lo), n), s)

\* as SpectrumWith, but the samples are written at the start of the spectrum
SpectrumWithAtStart(sample, lo, hi, total) ==
    [i \in 0 .. total - 1 |-> IF i < hi - lo THEN sample[i] ELSE 0]

\* Spectrum(min, max, total_samples) with samples[lo:hi] = sample.samples
SpectrumWith(sample, lo, hi, total) ==
    [i \in 0 .. total - 1 |-> IF lo <= i /\ i < hi THEN sample[i - lo] ELSE 0]

\* as Accumulate, but assigning instead of adding
AccumulateOverwrite(acc, xyz) == xyz

\* xyz_frame[y, x, :] += xyz
Accumulate(acc, xyz) == <<acc[1] + xyz[1], acc[2] + xyz[2], acc[3] + xyz[3]>>

\* the contribution of channel c to pixel (py, px)
ChannelXyz(c, py, px, n, total) ==
    SpectrumToCiexyz(SpectrumWith(Trace(c, n, py, px), n * c, n * (c + 1), total),
                     ResampleCiexyz(min_wavelength, max_wavelength, total), total)

\* as NextUnit, but rows inside columns
NextUnitColumnMajor(c, py, px, h, w) ==
    IF py + 1 < h THEN <<c, py + 1, px>>
    ELSE IF px + 1 < w THEN <<c, 0, px + 1>>
    ELSE <<c + 1, 0, 0>>

\* the work unit after (c, py, px): columns inside rows inside channels
NextUnit(c, py, px, h, w) ==
    IF px + 1 < w THEN <<c, py, px + 1>>
    ELSE IF py + 1 < h THEN <<c, py + 1, 0>>
    ELSE <<c + 1, 0, 0>>

\* the display refresh is due at reading t
RefreshDue(t) == display_progress /\ (t - display_timer) > display_update_time

\* as ReportDue, but already due at the period itself
ReportDueInclusive(d) == d >= StatsPeriod

\* the progress report is due after d time units
ReportDue(d) == d > StatsPeriod

(***************************************************************************)
(* observe().                                                              *)
(***************************************************************************)
\* from the call to the first iteration of the loops
Observe ==
    /\ Calls("observe")
    /\ script' = Tail(script)
    /\ xyz_frame' = NewXyzFrame(pixels[2], pixels[1])
    /\ frame' = NewFrame(pixels[2], pixels[1])
    /\ trace_log' = <<>>
    /\ display_calls' = IF root_is_world /\ rays # 0 /\ display_progress THEN 1 ELSE 0
    /\ progress_lines' = 0
    /\ UNCHANGED <<pixels, fov, rays, spectral_samples, min_wavelength, max_wavelength,
                   display_progress, display_update_time, root_is_world, prev, dt,
                   direction>>
    /\ IF ~root_is_world \/ rays = 0
       THEN /\ pc' = "failed"
            /\ error' = IF ~root_is_world THEN "TypeError" ELSE "ZeroDivisionError"
            /\ UNCHANGED <<image_delta, image_start_x, image_start_y, ray_list, lower_index,
                           index, y, x, ray_count, progress_timer, display_timer, now>>
       ELSE /\ error' = "none"
            /\ image_delta' = ImagePlane(pixels, fov).image_delta
            /\ image_start_x' = ImagePlane(pixels, fov).image_start_x
            /\ image_start_y' = ImagePlane(pixels, fov).image_start_y
            /\ ray_list' = GenerateRays(min_wavelength, max_wavelength, rays, spectral_samples)
            /\ ray_count' = 0
            /\ \E t \in Readings(now) :
                   /\ progress_timer' = t
                   /\ IF display_progress
                      THEN \E t2 \in Readings(t) : display_timer' = t2 /\ now' = t2
                      ELSE display_timer' = 0 /\ now' = t
            /\ x' = 0
            /\ IF pixels[1] > 0 /\ pixels[2] > 0
               THEN pc' = "stats" /\ index' = 0 /\ y' = 0 /\ lower_index' = 0
               ELSE /\ pc' = "closing"
                    /\ index' = rays - 1
                    /\ y' = Max(pixels[2] - 1, 0)
                    /\ lower_index' = spectral_samples * rays

\* the progress statistics at the top of the pixel loop's body
StatsStep ==
    /\ pc = "stats"
    /\ pc' = "trace"
    /\ \E t \in Readings(now) :
           /\ dt' = t - progress_timer
           /\ IF ReportDue(t - progress_timer)
              THEN /\ progress_lines' = progress_lines + 1
                   /\ ray_count' = 0
                   /\ \E t2 \in Readings(t) : progress_timer' = t2 /\ now' = t2
              ELSE UNCHANGED <<progress_lines, ray_count, progress_timer>> /\ now' = t
    /\ UNCHANGED <<camera, xyz_frame, image_delta, image_start_x, image_start_y, ray_list,
                   lower_index, index, y, x, display_timer, direction, script, error,
                   trace_log, display_calls, prev>>

\* the rest of the body: the ray is traced, its samples accumulated, the display
\* pixel recomputed, the display refreshed when due, and the loops advanced
TraceStep ==
    /\ pc = "trace"
    /\ LET total_samples == rays * spectral_samples
           upper_index == spectral_samples * (index + 1)
           sample == Trace(index, ray_list[index + 1].num_samples, y, x)
           spectrum == SpectrumWith(sample, lower_index, upper_index, total_samples)
           xyz == SpectrumToCiexyz(spectrum,
                      ResampleCiexyz(min_wavelength, max_wavelength, total_samples),
                      total_samples)
           acc == Accumulate(xyz_frame[y][x], xyz)
           next == NextUnit(index, y, x, pixels[2], pixels[1])
       IN  /\ direction' = RayDirection(image_start_x, image_start_y, image_delta, x, y)
           /\ trace_log' = Append(trace_log, <<index, y, x>>)
           /\ ray_count' = ray_count + TracerRayCount(y, x)
           /\ xyz_frame' = [xyz_frame EXCEPT ![y][x] = acc]
           /\ frame' = [frame EXCEPT ![y][x] = CiexyzToSrgb(acc)]
           /\ IF display_progress
              THEN \E t \in Readings(now) :
                       IF RefreshDue(t)
                       THEN /\ display_calls' = display_calls + 1
                            /\ \E t2 \in Readings(t) : display_timer' = t2 /\ now' = t2
                       ELSE UNCHANGED <<display_calls, display_timer>> /\ now' = t
              ELSE UNCHANGED <<now, display_calls, display_timer>>
           /\ lower_index' = IF next[1] # index THEN upper_index ELSE lower_index
           /\ IF next[1] < rays
              THEN pc' = "stats" /\ index' = next[1] /\ y' = next[2] /\ x' = next[3]
              ELSE pc' = "closing" /\ UNCHANGED <<index, y, x>>
    /\ UNCHANGED <<pixels, fov, rays, spectral_samples, min_wavelength, max_wavelength,
                   display_progress, display_update_time, root_is_world>>
    /\ UNCHANGED <<image_delta, image_start_x, image_start_y, ray_list, progress_timer, dt,
                   script, error, progress_lines, prev>>

\* as TraceRaise, but the pixel is cleared for the new sample before the trace
TraceRaiseAfterClear ==
    /\ pc = "trace"
    /\ pc' = "failed"
    /\ error' = "TracingError"
    /\ direction' = RayDirection(image_start_x, image_start_y, image_delta, x, y)
    /\ trace_log' = Append(trace_log, <<index, y, x>>)
    /\ frame' = [frame EXCEPT ![y][x] = <<0, 0, 0>>]
    /\ UNCHANGED <<pixels, fov, rays, spectral_samples, min_wavelength, max_wavelength,
                   display_progress, display_update_time, root_is_world>>
    /\ UNCHANGED <<xyz_frame, image_delta, image_start_x, image_start_y, ray_list,
                   lower_index, index, y, x, ray_count, progress_timer, display_timer, dt,
                   script, now, display_calls, progress_lines, prev>>

\* ray.trace raises: the exception leaves observe at once
TraceRaise ==
    /\ pc = "trace"
    /\ pc' = "failed"
    /\ error' = "TracingError"
    /\ direction' = RayDirection(image_start_x, image_start_y, image_delta, x, y)
    /\ trace_log' = Append(trace_log, <<index, y, x>>)
    /\ UNCHANGED <<camera, xyz_frame, image_delta, image_start_x, image_start_y, ray_list,
                   lower_index, index, y, x, ray_count, progress_timer, display_timer, dt,
                   script, now, display_calls, progress_lines, prev>>

\* after the loops: the completion line (the elapsed time is only printed) and
\* the final display
Finish ==
    /\ pc = "closing"
    /\ pc' = "done"
    /\ display_calls' = IF display_progress THEN display_calls + 1 ELSE display_calls
    /\ prev' = [valid |-> TRUE, config |-> Config,
                xyz_frame |-> xyz_frame, frame |-> frame]
    /\ UNCHANGED <<camera, locals, script, error, now, trace_log, progress_lines>>

Next ==
    \/ SetPixels
    \/ SetFov
    \/ SetAttr
    \/ SetParent
    \/ Observe
    \/ StatsStep
    \/ TraceStep
    \/ TraceRaise
    \/ Finish

(***************************************************************************)
(* Specifications: the constructor's arguments and the caller's programs.  *)
(***************************************************************************)
\* the frame sizes and sample counts a camera is constructed with
PixelSizes == {<<0, 2>>, <<1, 1>>, <<2, 2>>, <<3, 1>>}

SampleCounts == {1, 2}

\* calls that change the configuration
Setters ==
    {<<"pixels", <<2, 1>>>>, <<"pixels", <<2, 2, 2>>>>, <<"fov", 0>>, <<"fov", 90>>,
     <<"rays", 1>>, <<"spectral_samples", 2>>, <<"display_progress", 0>>,
     <<"display_update_time", 1>>, <<"parent", 0>>,
     <<"min_wavelength", 0>>, <<"max_wavelength", 1>>}

\* one render, after at most one change of the configuration
OneRender == {<<OBSERVE>>} \cup {<<a, OBSERVE>> : a \in Setters}

\* two renders in succession, with at most two changes in between
TwoRenders ==
    {<<OBSERVE, OBSERVE>>}
    \cup {<<OBSERVE, a, OBSERVE>> :
              a \in {<<"parent", 0>>, <<"fov", 0>>, <<"pixels", <<2, 1>>>>,
                     <<"display_progress", 0>>, <<"display_update_time", 1>>}}
    \cup {<<OBSERVE, <<"rays", r>>, <<"spectral_samples", s>>, OBSERVE>> :
              r \in 1 .. MaxChannels, s \in SampleCounts}

Init ==
    \E p \in PixelSizes, r \in 1 .. MaxChannels, s \in SampleCounts,
       prog \in OneRender \cup TwoRenders :
        Construct(p, 40, s, r, TRUE, prog)

Spec == Init /\ [][Next]_vars

\* renders over a unit wavelength range cut into up to four channels, and the
\* setters on their own
Partitioning ==
    {<<<<"min_wavelength", 0>>, <<"max_wavelength", 1>>, <<"rays", r>>, OBSERVE>> :
         r \in 1 .. MaxChannels + 2}
    \cup {<<a>> : a \in Setters}

InitPartition ==
    \E p \in {<<1, 1>>, <<2, 2>>}, s \in SampleCounts, prog \in Partitioning :
        Construct(p, 40, s, 1, TRUE, prog)

SpecPartition == InitPartition /\ [][Next]_vars

(***************************************************************************)
(* What the frames hold after a number of completed work units.            *)
(***************************************************************************)
\* the position of work unit (c, py, px) in the order of the loops
UnitNo(c, py, px) == (c * pixels[2] + py) * pixels[1] + px

\* the sum of the contributions of channels 0 .. n - 1 to pixel (py, px)
RECURSIVE SumChannels(_, _, _)
SumChannels(py, px, n) ==
    IF n = 0 THEN <<0, 0, 0>>
    ELSE LET a == SumChannels(py, px, n - 1)
             b == ChannelXyz(n - 1, py, px, spectral_samples, rays * spectral_samples)
         IN  <<a[1] + b[1], a[2] + b[2], a[3] + b[3]>>

\* the number of channels whose unit for pixel (py, px) is among the first units
ChannelsDone(py, px, units) ==
    Cardinality({c \in 0 .. rays - 1 : UnitNo(c, py, px) < units})

NonZero(f) == \E py \in DOMAIN f : \E px \in DOMAIN f[py] : f[py][px] # <<0, 0, 0>>

(***************************************************************************)
(* Claims.                                                                 *)
(***************************************************************************)
\* C1: a render of a frame with a zero pixel dimension raises a configuration
\* error before the tracer is called and never completes normally, and a field
\* of view of 0 is never configured.  (Stated for renders with the live display
\* off, where no display collaborator takes part.)
C1_ZeroPixelsRaise ==
    /\ fov > 0
    /\ (pc = "done" /\ ~display_progress) => (pixels[1] > 0 /\ pixels[2] > 0)

\* C2: observe on a camera whose root is not a World raises, calls the tracer
\* zero times, and leaves the Display Frame as it was before the call.
C2_ValidationPrecedesReset ==
    [][(Calls("observe") /\ ~root_is_world)
           => (pc' = "failed" /\ error' = "TypeError" /\ trace_log' = <<>> /\ frame' = frame)]_vars

\* C3: in a frame more than one pixel wide, the directions of the rays through
\* pixel (0, 0) and pixel (width - 1, 0) have x-components of equal magnitude
\* and opposite sign.
C3_EdgeColumnsSymmetric ==
    (Rendering /\ pixels[1] > 1) =>
        LET left == RayDirection(image_start_x, image_start_y, image_delta, 0, 0)
            right == RayDirection(image_start_x, image_start_y, image_delta, pixels[1] - 1, 0)
        IN  left[1] = -right[1]

\* C4: the ray templates number exactly rays, ascend, start at min_wavelength,
\* each begins where the one before ends, each is (max - min) / rays wide, and
\* the last ends at max_wavelength.
C4_ChannelsPartitionRange ==
    (Rendering /\ rays >= 1 /\ min_wavelength < max_wavelength) =>
        /\ Len(ray_list) = rays
        /\ ray_list[1].min_wavelength = min_wavelength
        /\ \A i \in 2 .. rays : ray_list[i].min_wavelength = ray_list[i - 1].max_wavelength
        /\ \A i \in 1 .. rays : ray_list[i].min_wavelength < ray_list[i].max_wavelength
        /\ \A i \in 1 .. rays :
               FSub(ray_list[i].max_wavelength, ray_list[i].min_wavelength)
                   = FDivInt(FSub(max_wavelength, min_wavelength), rays)
        /\ ray_list[rays].max_wavelength = max_wavelength

\* C5: accumulation is additive across channels: when all work units of a
\* render are done, every pixel of the Accumulated Tristimulus Frame holds what
\* the previous render left there, if that render had the same pixels and
\* wavelength range and the same total sample count under another channel count.
C5_AdditiveAcrossChannels ==
    (/\ pc = "closing"
     /\ prev.valid
     /\ prev.config[1] = pixels
     /\ prev.config[5] = min_wavelength /\ prev.config[6] = max_wavelength
     /\ prev.config[3] * prev.config[4] = rays * spectral_samples)
        => xyz_frame = prev.xyz_frame

C5_Witness ==
    /\ pc = "closing"
    /\ prev.valid
    /\ prev.config[1] = pixels /\ pixels = <<2, 2>>
    /\ prev.config[3] = 2 /\ prev.config[4] = 1
    /\ rays = 1 /\ spectral_samples = 2
    /\ NonZero(xyz_frame)

\* C6: a second render with the same configuration ends with the frames of
\* the first: nothing of the first render is carried into the second.
C6_SecondRenderIndependent ==
    (pc = "closing" /\ prev.valid /\ prev.config = Config)
        => (frame = prev.frame /\ xyz_frame = prev.xyz_frame)

C6_Witness ==
    /\ pc = "closing"
    /\ prev.valid
    /\ prev.config = Config
    /\ pixels = <<2, 2>>
    /\ rays = 2
    /\ NonZero(frame)

\* the frames hold exactly what the first units work units wrote
WrittenBy(units) ==
    \A py \in 0 .. pixels[2] - 1 : \A px \in 0 .. pixels[1] - 1 :
        /\ xyz_frame[py][px] = SumChannels(py, px, ChannelsDone(py, px, units))
        /\ frame[py][px] = IF ChannelsDone(py, px, units) = 0 THEN <<0, 0, 0>>
                           ELSE CiexyzToSrgb(SumChannels(py, px, ChannelsDone(py, px, units)))

C8_RasterOrder ==
    /\ pc # "idle" => \A k \in 1 .. Len(trace_log) :
           trace_log[k] = <<(k - 1) \div (pixels[1] * pixels[2]),
                            ((k - 1) % (pixels[1] * pixels[2])) \div pixels[1],
                            (k - 1) % pixels[1]>>
    /\ pc \in {"closing", "done"} => Len(trace_log) = rays * pixels[1] * pixels[2]

C8_Witness ==
    /\ pc = "done"
    /\ pixels = <<2, 2>>
    /\ rays = 2
    /\ Len(trace_log) = 8

\* C9: between two pixel steps every pixel of the Display Frame is the colour
\* mapping of its accumulated tristimulus value, which is the sum of channels
\* 0 .. c for the pixels already visited in the current channel c and of
\* channels 0 .. c - 1 for the others.
DisplayTracks(units) ==
    \A py \in 0 .. pixels[2] - 1 : \A px \in 0 .. pixels[1] - 1 :
        /\ frame[py][px] = CiexyzToSrgb(xyz_frame[py][px])
        /\ xyz_frame[py][px] = SumChannels(py, px, ChannelsDone(py, px, units))

C9_DisplayTracksAccumulation ==
    /\ pc \in {"stats", "trace"} => DisplayTracks(UnitNo(index, y, x))
    /\ pc = "closing" => DisplayTracks(rays * pixels[1] * pixels[2])

C9_Witness ==
    /\ pc = "stats"
    /\ pixels = <<2, 2>>
    /\ index = 1 /\ y = 0 /\ x = 1
    /\ xyz_frame[0][0] # xyz_frame[0][1]
    /\ frame[0][0] # frame[1][1]

\* C10: a progress report fires exactly when more than StatsPeriod has passed
\* since the last one and resets the statistics timer and the ray counter only;
\* a display refresh fires only with the live display on and more than
\* display_update_time after the last one, and resets the display timer only;
\* with the live display off display() is never called.
C10_IndependentThrottles ==
    /\ [][pc = "stats"
             => /\ (progress_lines' # progress_lines) <=> (dt' > StatsPeriod)
                /\ (progress_lines' # progress_lines)
                       => /\ progress_lines' = progress_lines + 1
                          /\ ray_count' = 0
                          /\ progress_timer' = now'
                /\ (progress_lines' = progress_lines)
                       => (ray_count' = ray_count /\ progress_timer' = progress_timer)
                /\ display_timer' = display_timer
                /\ display_calls' = display_calls]_vars
    /\ [][(pc = "trace" /\ pc' # "failed")
             => /\ (display_calls' # display_calls)
                       => /\ display_progress
                          /\ now' - display_timer > display_update_time
                          /\ display_calls' = display_calls + 1
                          /\ display_timer' = now'
                /\ (display_calls' = display_calls) => display_timer' = display_timer
                /\ progress_timer' = progress_timer
                /\ progress_lines' = progress_lines
                /\ ray_count' = ray_count + TracerRayCount(y, x)]_vars
    /\ []((pc \in {"stats", "trace", "closing", "done", "failed"} /\ ~display_progress)
              => display_calls = 0)

C10_Witness ==
    /\ pc = "trace"
    /\ progress_lines = 1
    /\ display_calls = 2
    /\ progress_timer # display_timer
    /\ ray_count > 0

C10_WitnessDisplayOff ==
    /\ pc = "trace"
    /\ ~display_progress
    /\ progress_lines = 1
    /\ display_calls = 0

====
